---- MODULE Spec2Model ----
(***************************************************************************)
(* Carbon Footprint Tracker: the emissions calculator (app.js), the        *)
(* comparison with the previous log entry, and the localStorage log store  *)
(* (api.js).                                                               *)
(*                                                                         *)
(* JavaScript numbers are modelled as exact rationals extended with        *)
(* Infinity, -Infinity and NaN; a JSON null is a fifth kind.  Rounding of  *)
(* IEEE doubles and the sign of zero are not modelled.                     *)
(***************************************************************************)
EXTENDS Integers, Sequences, FiniteSets, TLC

VARIABLES
    CONFIG,        \* the global CONFIG of config.js
    elements,      \* ids of the input elements the document has
    form,          \* the value of each input element
    appState,      \* the global appState of app.js
    carbonLogs,    \* localStorage.carbonLogs, parsed
    display,       \* what the result panel shows
    calculateBtn,  \* the calculate button
    pendingCalc,   \* calculate timeouts not yet run
    lastCall,      \* the most recent call of calculateFootprint
    lastSave,      \* how the most recent saveCalculation ended
    saves,         \* number of entries saved so far
    now,           \* Date.now()
    edits,         \* number of edits of the form so far
    initialized,   \* initializeApp has run
    apiUser,       \* api.user, which is also localStorage.user
    account,       \* what the backend holds for this client
    exportBtn,     \* the export button
    authUI,        \* what updateAuthUI last made of the login/signup buttons
    lastExport,    \* how the most recent handleExport ended
    checkoutTimers,\* timeouts of the demo checkout not yet run
    checkouts,     \* number of subscribe clicks so far
    lastAuth,      \* "in" after a login or signup, "out" after a logout
    chatbot,       \* window.chatbot
    chatbotHistory,\* localStorage.chatbot_history
    pendingChat,   \* messages whose request to the chat backend is in flight
    lastReply,     \* the most recent message the chatbot answered
    sent           \* number of messages sent to the chatbot so far

\* the state of the account, the subscription and the export
accountVars == <<apiUser, account, exportBtn, authUI, lastExport,
                 checkoutTimers, checkouts, lastAuth>>

\* the state of the chatbot
chatVars == <<chatbot, chatbotHistory, pendingChat, lastReply, sent>>

vars == <<CONFIG, elements, form, appState, carbonLogs, display,
          calculateBtn, pendingCalc, lastCall, lastSave, saves, now, edits,
          initialized, apiUser, account, exportBtn, authUI, lastExport,
          checkoutTimers, checkouts, lastAuth, chatbot, chatbotHistory,
          pendingChat, lastReply, sent>>

(***************************************************************************)
(* Numbers                                                                 *)
(***************************************************************************)
RECURSIVE GCD(_, _)
GCD(a, b) == IF b = 0 THEN a ELSE GCD(b, a % b)

AbsInt(n) == IF n < 0 THEN -n ELSE n

\* the rational n/d, d > 0, in lowest terms
Fin(n, d) ==
    LET g == GCD(AbsInt(n), d)
    IN  [k |-> "fin", n |-> n \div g, d |-> d \div g]

Num(n) == [k |-> "fin", n |-> n, d |-> 1]
NaN == [k |-> "nan", n |-> 0, d |-> 1]
PosInf == [k |-> "inf", n |-> 1, d |-> 1]
NegInf == [k |-> "inf", n |-> -1, d |-> 1]
Null == [k |-> "null", n |-> 0, d |-> 1]
Zero == Num(0)

\* ToNumber: null converts to 0, everything else is a number already
ToNumber(a) == IF a.k = "null" THEN Zero ELSE a

IsNaN(a) == a.k = "nan"

Sign(a) == IF a.n > 0 THEN 1 ELSE IF a.n < 0 THEN -1 ELSE 0

\* The operands of an operation are evaluated once: Val({ F(a) : a \in {e} })
\* is F(e) with e evaluated before F.
Val(S) == CHOOSE x \in S : TRUE

Neg(a0) ==
    Val({ IF a.k = "nan" THEN NaN ELSE [ToNumber(a) EXCEPT !.n = -a.n] :
          a \in {a0} })

AddNumbers(a, b) ==
    IF a.k = "nan" \/ b.k = "nan" THEN NaN
    ELSE IF a.k = "inf" /\ b.k = "inf"
         THEN IF a.n = b.n THEN a ELSE NaN
    ELSE IF a.k = "inf" THEN a
    ELSE IF b.k = "inf" THEN b
    ELSE LET g == GCD(a.d, b.d)
             l == (a.d \div g) * b.d
         IN  Fin(a.n * (l \div a.d) + b.n * (l \div b.d), l)

Add(a0, b0) ==
    Val({ AddNumbers(ToNumber(a), ToNumber(b)) : a \in {a0}, b \in {b0} })

Sub(a, b) == Add(a, Neg(b))

MulNumbers(a, b) ==
    IF a.k = "nan" \/ b.k = "nan" THEN NaN
    ELSE IF a.k = "inf" \/ b.k = "inf"
         THEN IF Sign(a) * Sign(b) = 0 THEN NaN
              ELSE IF Sign(a) * Sign(b) > 0 THEN PosInf ELSE NegInf
    ELSE LET g1 == GCD(AbsInt(a.n), b.d)
             g2 == GCD(AbsInt(b.n), a.d)
         IN  Fin((a.n \div g1) * (b.n \div g2), (a.d \div g2) * (b.d \div g1))

Mul(a0, b0) ==
    Val({ MulNumbers(ToNumber(a), ToNumber(b)) : a \in {a0}, b \in {b0} })

DivNumbers(a, b) ==
    IF a.k = "nan" \/ b.k = "nan" THEN NaN
    ELSE IF b.k = "inf"
         THEN IF a.k = "inf" THEN NaN ELSE Zero
    ELSE IF b.n = 0
         THEN IF Sign(a) = 0 THEN NaN
              ELSE IF Sign(a) > 0 THEN PosInf ELSE NegInf
    ELSE IF a.k = "inf"
         THEN IF Sign(a) * Sign(b) > 0 THEN PosInf ELSE NegInf
    ELSE IF b.n > 0 THEN MulNumbers(a, [k |-> "fin", n |-> b.d, d |-> b.n])
         ELSE MulNumbers(a, [k |-> "fin", n |-> -b.d, d |-> -b.n])

Div(a0, b0) ==
    Val({ DivNumbers(ToNumber(a), ToNumber(b)) : a \in {a0}, b \in {b0} })

\* a < b; every comparison with NaN is false
LtNumbers(a, b) ==
    IF a.k = "nan" \/ b.k = "nan" THEN FALSE
    ELSE IF a.k = "inf" THEN a.n < 0 /\ ~(b.k = "inf" /\ b.n < 0)
    ELSE IF b.k = "inf" THEN b.n > 0
    ELSE LET g == GCD(a.d, b.d)
         IN  a.n * (b.d \div g) < b.n * (a.d \div g)

Lt(a0, b0) ==
    Val({ LtNumbers(ToNumber(a), ToNumber(b)) : a \in {a0}, b \in {b0} })

Gt(a, b) == Lt(b, a)

MathAbs(a0) ==
    Val({ IF a.k = "nan" THEN NaN ELSE [ToNumber(a) EXCEPT !.n = AbsInt(a.n)] :
          a \in {a0} })

MathMax(a0, b0) ==
    Val({ IF a.k = "nan" \/ b.k = "nan" THEN NaN
          ELSE IF LtNumbers(ToNumber(a), ToNumber(b)) THEN ToNumber(b)
          ELSE ToNumber(a) :
          a \in {a0}, b \in {b0} })

MathMin(a0, b0) ==
    Val({ IF a.k = "nan" \/ b.k = "nan" THEN NaN
          ELSE IF LtNumbers(ToNumber(b), ToNumber(a)) THEN ToNumber(b)
          ELSE ToNumber(a) :
          a \in {a0}, b \in {b0} })

\* truthiness of a number or null: 0, NaN and null are falsy
Truthy(a) == a.k = "inf" \/ (a.k = "fin" /\ a.n # 0)

\* JSON.stringify followed by JSON.parse: NaN and the infinities become null
JSONNumber(a) == IF a.k = "fin" THEN a ELSE Null

(***************************************************************************)
(* Configuration: config.js and the fallback of getConfig                  *)
(***************************************************************************)
Categories == {"transport", "energy", "food", "waste", "shopping"}

\* CONFIG.emissionFactors of config.js
DefaultFactors ==
    [transport |-> [car |-> Fin(41, 100), flightShort |-> Fin(158, 1000),
                    publicTransport |-> Fin(53, 1000)],
     energy    |-> [electricity |-> Fin(233, 1000), gas |-> Fin(53, 10)],
     food      |-> [meatMeal |-> Fin(719, 100), dairyServing |-> Fin(25, 10)],
     waste     |-> [wasteBag |-> Fin(25, 10), recyclingOffset |-> Fin(-12, 10)],
     shopping  |-> [general |-> Fin(5, 1000), electronics |-> Num(50)]]

\* The global CONFIG as config.js defines it.  defined: the global exists;
\* hasEmissionFactors: it has an emissionFactors member; categories: the
\* members that emissionFactors has; a factor that is absent reads as
\* undefined, which is NaN in arithmetic; kgToTonnes is NaN when
\* conversions or conversions.kgToTonnes is absent.
DefaultCONFIG ==
    [defined |-> TRUE, demoMode |-> TRUE, hasEmissionFactors |-> TRUE,
     categories |-> Categories, emissionFactors |-> DefaultFactors,
     kgToTonnes |-> Fin(1, 1000), mockMode |-> FALSE]

\* the object getConfig returns when CONFIG is not loaded
FallbackCONFIG ==
    [defined |-> TRUE, demoMode |-> TRUE, hasEmissionFactors |-> TRUE,
     categories |-> Categories,
     emissionFactors |->
        [transport |-> [car |-> Fin(41, 100), flightShort |-> Fin(158, 1000),
                        publicTransport |-> Fin(53, 1000)],
         energy    |-> [electricity |-> Fin(233, 1000), gas |-> Fin(53, 10)],
         food      |-> [meatMeal |-> Fin(719, 100), dairyServing |-> Fin(25, 10)],
         waste     |-> [wasteBag |-> Fin(25, 10), recyclingOffset |-> Fin(-12, 10)],
         shopping  |-> [general |-> Fin(5, 1000), electronics |-> Num(50)]],
     kgToTonnes |-> Fin(1, 1000), mockMode |-> TRUE]

getConfig(cfg) == IF cfg.defined THEN cfg ELSE FallbackCONFIG

(***************************************************************************)
(* The calculator form                                                     *)
(***************************************************************************)
Fields == {"car-miles", "flights", "public-transport", "electricity", "gas",
           "renewable-percent", "meat-meals", "dairy-products", "local-food",
           "waste-bags", "recycling-percent", "shopping-spend", "electronics"}

PercentFields == {"renewable-percent", "local-food", "recycling-percent"}

\* The text of an input element: its longest numeric prefix (NaN when the
\* text does not start with a number) and the characters after it.
Text(num, rest) == [num |-> num, rest |-> rest]
EmptyText == Text(NaN, "")

\* parseFloat reads the numeric prefix and ignores what follows it
parseFloat(text) == text.num

\* safeParseFloat without the test for a negative value
safeParseFloat_NoNegativeTest(els, frm, elementId) ==
    IF elementId \notin els THEN Zero
    ELSE Val({ IF IsNaN(value) THEN Zero ELSE value :
               value \in {parseFloat(frm[elementId])} })

\* safeParseFloat without the isNaN test
safeParseFloat_NoNaNTest(els, frm, elementId) ==
    IF elementId \notin els THEN Zero
    ELSE Val({ IF Lt(value, Zero) THEN Zero ELSE value :
               value \in {parseFloat(frm[elementId])} })

safeParseFloat(els, frm, elementId) ==
    IF elementId \notin els THEN Zero
    ELSE Val({ IF IsNaN(value) \/ Lt(value, Zero) THEN Zero ELSE value :
               value \in {parseFloat(frm[elementId])} })

\* the clamp without its upper end
Clamp0to100_NoMin(v) == MathMax(Zero, v)

Clamp0to100(v) == MathMin(Num(100), MathMax(Zero, v))

(***************************************************************************)
(* calculateFootprint: the five categories, in kg CO2e per day             *)
(***************************************************************************)
FlightKm == 1000
MeatReductionFloor == Fin(8, 10)
LocalFoodMaxReduction == Fin(2, 10)

TransportKg(els, frm, factors) ==
    LET carMilesPerDay == safeParseFloat(els, frm, "car-miles")
        flightsPerDay == safeParseFloat(els, frm, "flights")
        publicTransportPerDay == safeParseFloat(els, frm, "public-transport")
        transportCarCo2e == Mul(carMilesPerDay, factors.transport.car)
        transportFlightsCo2e ==
            Mul(Mul(flightsPerDay, Num(FlightKm)), factors.transport.flightShort)
        transportPublicCo2e ==
            Mul(publicTransportPerDay, factors.transport.publicTransport)
    IN  Add(Add(transportCarCo2e, transportFlightsCo2e), transportPublicCo2e)

\* EnergyKg with the renewable share ignored
EnergyKg_NoRenewable(els, frm, factors) ==
    Add(Mul(safeParseFloat(els, frm, "electricity"), factors.energy.electricity),
        Mul(safeParseFloat(els, frm, "gas"), factors.energy.gas))

EnergyKg(els, frm, factors) ==
    LET electricityPerDay == safeParseFloat(els, frm, "electricity")
        gasPerDay == safeParseFloat(els, frm, "gas")
        renewablePercent ==
            Clamp0to100(safeParseFloat(els, frm, "renewable-percent"))
        electricityEmissions ==
            Mul(Mul(electricityPerDay, factors.energy.electricity),
                Sub(Num(1), Div(renewablePercent, Num(100))))
        gasCo2e == Mul(gasPerDay, factors.energy.gas)
    IN  Add(electricityEmissions, gasCo2e)

\* Math.max(0.8, 1 - (localFoodPercent / 100) * 0.2)
MeatReduction(els, frm) ==
    LET localFoodPercent == Clamp0to100(safeParseFloat(els, frm, "local-food"))
    IN  MathMax(MeatReductionFloor,
                Sub(Num(1), Mul(Div(localFoodPercent, Num(100)),
                                LocalFoodMaxReduction)))

\* FoodKg with the local-food share ignored
FoodKg_NoLocalFood(els, frm, factors) ==
    Add(Mul(safeParseFloat(els, frm, "meat-meals"), factors.food.meatMeal),
        Mul(safeParseFloat(els, frm, "dairy-products"), factors.food.dairyServing))

FoodKg(els, frm, factors) ==
    LET meatMealsPerDay == safeParseFloat(els, frm, "meat-meals")
        dairyPerDay == safeParseFloat(els, frm, "dairy-products")
        meatReduction == MeatReduction(els, frm)
        foodMeatCo2e ==
            Mul(Mul(meatMealsPerDay, factors.food.meatMeal), meatReduction)
        foodDairyCo2e == Mul(dairyPerDay, factors.food.dairyServing)
    IN  Add(foodMeatCo2e, foodDairyCo2e)

\* WasteKg floored at 0
WasteKg_Floored(els, frm, factors) ==
    LET wasteEmissions ==
            Mul(safeParseFloat(els, frm, "waste-bags"), factors.waste.wasteBag)
        recyclingOffset ==
            Mul(Mul(wasteEmissions,
                    Div(Clamp0to100(safeParseFloat(els, frm, "recycling-percent")),
                        Num(100))),
                MathAbs(factors.waste.recyclingOffset))
    IN  MathMax(Zero, Sub(wasteEmissions, recyclingOffset))

WasteKg(els, frm, factors) ==
    LET wasteBagsPerDay == safeParseFloat(els, frm, "waste-bags")
        recyclingPercent ==
            Clamp0to100(safeParseFloat(els, frm, "recycling-percent"))
        wasteEmissions == Mul(wasteBagsPerDay, factors.waste.wasteBag)
        recyclingOffset ==
            Mul(Mul(wasteEmissions, Div(recyclingPercent, Num(100))),
                MathAbs(factors.waste.recyclingOffset))
    IN  Sub(wasteEmissions, recyclingOffset)

ShoppingKg(els, frm, factors) ==
    LET shoppingSpendPerDay == safeParseFloat(els, frm, "shopping-spend")
        electronicsPerDay == safeParseFloat(els, frm, "electronics")
        shoppingCo2e == Mul(shoppingSpendPerDay, factors.shopping.general)
        electronicsCo2e == Mul(electronicsPerDay, factors.shopping.electronics)
    IN  Add(shoppingCo2e, electronicsCo2e)

\* conversions?.kgToTonnes || 0.001
KgToTonnes(cfg) == IF Truthy(cfg.kgToTonnes) THEN cfg.kgToTonnes ELSE Fin(1, 1000)

\* FinalTotalTonnes without the test for a negative total
FinalTotalTonnes_NoNegativeTest(totalTonnes) ==
    Val({ IF IsNaN(total) THEN Zero ELSE total : total \in {totalTonnes} })

\* isNaN(totalTonnes) || totalTonnes < 0 ? 0 : totalTonnes
FinalTotalTonnes(totalTonnes) ==
    Val({ IF IsNaN(total) \/ Lt(total, Zero) THEN Zero ELSE total :
          total \in {totalTonnes} })

(***************************************************************************)
(* The log store: localStorage.carbonLogs through api.js                   *)
(***************************************************************************)
\* time is counted in days; Date.now() is the variable now
Day == 1

\* notes: the comparison saveCalculation wrote into the notes, "" when the
\* entry has none
LogEntry(id, category, co2e, notes, timestamp) ==
    [id |-> id, category |-> category, co2e |-> JSONNumber(co2e),
     notes |-> notes, timestamp |-> timestamp]

\* the array loadDemoData writes when the store is empty
demoLogs(t) ==
    << LogEntry(<<"demo", 1>>, "transport", Fin(25, 10), "", t - 30 * Day),
       LogEntry(<<"demo", 2>>, "energy", Fin(18, 10), "", t - 20 * Day),
       LogEntry(<<"demo", 3>>, "food", Fin(12, 10), "", t - 10 * Day) >>

getCarbonLogs(store) == store

\* a carbonLogs item that JSON.parse rejects: getCarbonLogs throws on it
CorruptStore == << [unparsable |-> TRUE] >>

Readable(store) == store # CorruptStore

\* JSON.stringify of the array followed by JSON.parse: what setItem stores
\* and getItem gives back
JSONArray(logs) ==
    [i \in 1..Len(logs) |-> [logs[i] EXCEPT !.co2e = JSONNumber(@)]]

\* { id: 'log-' + Date.now(), ...logData, timestamp: new Date() }
NewLog(logData, t) ==
    [id |-> <<"log", t>>, category |-> logData.category, co2e |-> logData.co2e,
     notes |-> logData.notes, timestamp |-> t]

\* saveCarbonLog with unshift in the place of push
saveCarbonLog_Prepends(store, logData, t) ==
    JSONArray(<< NewLog(logData, t) >> \o getCarbonLogs(store))

\* logs.push(newLog); localStorage.setItem('carbonLogs', JSON.stringify(logs))
saveCarbonLog(store, logData, t) ==
    JSONArray(Append(getCarbonLogs(store), NewLog(logData, t)))

\* Array.prototype.sort with (a, b) => dateB - dateA: a stable sort, most
\* recent first
RECURSIVE InsertByDate(_, _)
InsertByDate(e, sorted) ==
    IF sorted = << >> THEN << e >>
    ELSE IF Head(sorted).timestamp - e.timestamp < 0
         THEN << e >> \o sorted
         ELSE << Head(sorted) >> \o InsertByDate(e, Tail(sorted))

RECURSIVE SortByDateDesc(_, _)
SortByDateDesc(logs, sorted) ==
    IF logs = << >> THEN sorted
    ELSE SortByDateDesc(Tail(logs), InsertByDate(Head(logs), sorted))

\* the store after a getPreviousCalculation that writes the sorted array back
StoreAfterCalculate_SortedInPlace(store) == SortByDateDesc(store, << >>)

\* localStorage.carbonLogs after calculateFootprint: getCarbonLogs parses a
\* copy, getPreviousCalculation sorts the copy, and nothing calls setItem
StoreAfterCalculate(store) == store

\* getPreviousCalculation without the sort: the first entry of the array
getPreviousCalculation_Unsorted(store) ==
    IF Len(getCarbonLogs(store)) = 0 THEN << >>
    ELSE << getCarbonLogs(store)[1] >>

\* null is the empty sequence, an entry e is << e >>
getPreviousCalculation(store) ==
    LET logs == getCarbonLogs(store)
    IN  IF Len(logs) = 0 THEN << >>
        ELSE << SortByDateDesc(logs, << >>)[1] >>

(***************************************************************************)
(* displayCalculationResult                                                *)
(***************************************************************************)
SignificantDifference == Fin(1, 100)
BelowAverage == Fin(13, 1000)
NearAverage == Fin(22, 1000)

NoComparison == [direction |-> "none", difference |-> Null, percentChange |-> Null]

\* previousCalculation && previousCalculation.co2e, without the co2e test
HasPrevious_NoCo2eTest(previousCalculation) == previousCalculation # << >>

\* previousCalculation && previousCalculation.co2e
HasPrevious(previousCalculation) ==
    previousCalculation # << >> /\ Truthy(previousCalculation[1].co2e)

\* parseFloat(previousCalculation.co2e) || 0
PreviousValue(previousCalculation) ==
    Val({ IF Truthy(parsed) THEN parsed ELSE Zero :
          parsed \in {parseFloat(Text(previousCalculation[1].co2e, ""))} })

\* the percentage without the factor 100
PercentChange_NoTimes100(difference, previousValue) ==
    IF Gt(previousValue, Zero) THEN Div(difference, previousValue) ELSE Zero

\* previousValue > 0 ? ((difference / previousValue) * 100) : 0
PercentChange(difference, previousValue) ==
    IF Gt(previousValue, Zero)
    THEN Mul(Div(difference, previousValue), Num(100))
    ELSE Zero

\* the comparison sentence appended to the description: the difference
\* and the percentage are in the text only when the difference is significant
Comparison(displayValue, previousCalculation) ==
    IF HasPrevious(previousCalculation)
    THEN Val({ IF Gt(MathAbs(difference), SignificantDifference)
               THEN IF Lt(difference, Zero)
                    THEN [direction |-> "reduction", difference |-> difference,
                          percentChange |-> percentChange]
                    ELSE [direction |-> "increase", difference |-> difference,
                          percentChange |-> percentChange]
               ELSE [direction |-> "unchanged", difference |-> Null,
                     percentChange |-> Null] :
               difference \in
                 {Sub(displayValue, PreviousValue(previousCalculation))},
               percentChange \in
                 {PercentChange(Sub(displayValue, PreviousValue(previousCalculation)),
                                PreviousValue(previousCalculation))} })
    ELSE NoComparison

Description(displayValue, previousCalculation) ==
    IF displayValue = Zero
    THEN [shown |-> TRUE, value |-> displayValue, description |-> "enter",
          comparison |-> NoComparison]
    ELSE [shown |-> TRUE, value |-> displayValue,
          description |-> IF Lt(displayValue, BelowAverage) THEN "below"
                          ELSE IF Lt(displayValue, NearAverage) THEN "close"
                          ELSE "above",
          comparison |-> Comparison(displayValue, previousCalculation)]

displayCalculationResult(tonnes, previousCalculation) ==
    Val({ Description(IF IsNaN(t) \/ Lt(t, Zero) THEN Zero ELSE t, p) :
          t \in {tonnes}, p \in {previousCalculation} })

NoDisplay ==
    [shown |-> FALSE, value |-> Zero, description |-> "", comparison |-> NoComparison]

(***************************************************************************)
(* calculateFootprint                                                      *)
(***************************************************************************)
\* TotalTonnes with the shopping category left out of the sum
TotalTonnes_NoShopping(transport, energy, food, waste, shopping, kgToTonnes) ==
    Mul(Add(Add(Add(Add(Zero, transport), energy), food), waste), kgToTonnes)

\* totalCo2e * kgToTonnes, totalCo2e being the running sum that starts at 0
TotalTonnes(transport, energy, food, waste, shopping, kgToTonnes) ==
    Mul(Add(Add(Add(Add(Add(Zero, transport), energy), food), waste), shopping),
        kgToTonnes)

\* StoreAndDisplay with a total that starts from the co2e of the previous
\* log entry instead of 0
StoreAndDisplay_AddsPrevious(transport, energy, food, waste, shopping, kgToTonnes, previousCalculation, t) ==
    Val({ [outcome |-> "ok", result |-> TRUE, alert |-> FALSE,
           currentCalculation |->
               << [co2e |-> finalTotalTonnes, category |-> "mixed",
                   timestamp |-> t,
                   breakdown |->
                      << [transport |-> Mul(transport, kgToTonnes),
                          energy |-> Mul(energy, kgToTonnes),
                          food |-> Mul(food, kgToTonnes),
                          waste |-> Mul(waste, kgToTonnes),
                          shopping |-> Mul(shopping, kgToTonnes)] >>] >>,
           display |-> displayCalculationResult(finalTotalTonnes,
                                                previousCalculation),
           previous |-> previousCalculation] :
          finalTotalTonnes \in
            { FinalTotalTonnes(
                Add(TotalTonnes(transport, energy, food, waste, shopping,
                                kgToTonnes),
                    IF previousCalculation = << >> THEN Zero
                    ELSE previousCalculation[1].co2e)) } })

\* the end of the try block: totalCo2e is converted to tonnes, the result is
\* stored in appState.currentCalculation and displayed with the comparison
StoreAndDisplay(transport, energy, food, waste, shopping, kgToTonnes, previousCalculation, t) ==
    Val({ [outcome |-> "ok", result |-> TRUE, alert |-> FALSE,
           currentCalculation |->
               << [co2e |-> finalTotalTonnes, category |-> "mixed",
                   timestamp |-> t,
                   breakdown |->
                      << [transport |-> Mul(transport, kgToTonnes),
                          energy |-> Mul(energy, kgToTonnes),
                          food |-> Mul(food, kgToTonnes),
                          waste |-> Mul(waste, kgToTonnes),
                          shopping |-> Mul(shopping, kgToTonnes)] >>] >>,
           display |-> displayCalculationResult(finalTotalTonnes,
                                                previousCalculation),
           previous |-> previousCalculation] :
          finalTotalTonnes \in
            { FinalTotalTonnes(TotalTonnes(transport, energy, food, waste,
                                           shopping, kgToTonnes)) } })

\* the try block with a safeParseFloat that reads element.value without
\* testing the element
TryBlockThrows_OnAbsentElement(cfg, els, frm, store) ==
    cfg.categories # Categories \/ Fields \ els # {}

\* The try block throws: factors.<category>.<factor> is a TypeError when
\* the category is absent.  Nothing else in it throws: safeParseFloat
\* returns 0 for an absent element, arithmetic and toFixed accept every
\* number.  Its last statements call getPreviousCalculation, which throws
\* when the store cannot be parsed.
TryBlockThrows(cfg, els, frm, store) ==
    \/ cfg.categories # Categories
    \/ ~Readable(store)

\* outcome: "noconfig" (alert, return false, nothing stored), "catch" (an
\* exception inside the try block: a 0 result without breakdown is stored
\* and shown, return false), "ok" (return true)
calculateFootprint(cfg, els, frm, store, t) ==
    LET CONFIG_TO_USE == getConfig(cfg)
        factors == CONFIG_TO_USE.emissionFactors
    IN  IF ~CONFIG_TO_USE.hasEmissionFactors
        THEN [outcome |-> "noconfig", result |-> FALSE, alert |-> TRUE,
              currentCalculation |-> << >>, display |-> NoDisplay,
              previous |-> << >>]
        ELSE IF TryBlockThrows(CONFIG_TO_USE, els, frm, store)
        THEN [outcome |-> "catch", result |-> FALSE, alert |-> FALSE,
              currentCalculation |->
                  << [co2e |-> Zero, category |-> "mixed", timestamp |-> t,
                      breakdown |-> << >>] >>,
              display |-> displayCalculationResult(Zero, << >>),
              previous |-> << >>]
        ELSE
        Val({ StoreAndDisplay(transport, energy, food, waste, shopping,
                              KgToTonnes(CONFIG_TO_USE), previousCalculation, t) :
              transport \in {TransportKg(els, frm, factors)},
              energy \in {EnergyKg(els, frm, factors)},
              food \in {FoodKg(els, frm, factors)},
              waste \in {WasteKg(els, frm, factors)},
              shopping \in {ShoppingKg(els, frm, factors)},
              previousCalculation \in {getPreviousCalculation(store)} })

(***************************************************************************)
(* The account: api.js and the auth, premium and export code of app.js     *)
(***************************************************************************)
User(id, isPremium) == [id |-> id, isPremium |-> isPremium]

\* null is the empty sequence, a user u is << u >>
NoUser == << >>

\* appState as the script creates it
InitialAppState ==
    [currentCalculation |-> << >>, userData |-> NoUser, isPremium |-> FALSE]

\* getApiConfig: { app: { demoMode: true } } when CONFIG is not loaded
getApiConfig(cfg) == IF cfg.defined THEN cfg ELSE FallbackCONFIG

\* user?.isPremium
IsPremiumUser(user) == user # NoUser /\ user[1].isPremium

\* api.getUserProfile as loadUserData uses it.  In demo mode the profile is
\* api.user or the built-in demo user; otherwise it is what GET
\* /user/profile answers: the account the backend holds for the client, or
\* an error (ok: the request succeeds).
getUserProfile(cfg, user, acct, ok) ==
    IF getApiConfig(cfg).demoMode
    THEN IF user # NoUser THEN user ELSE << User("demo-user", FALSE) >>
    ELSE IF ok /\ acct # "none" THEN << User("server", acct = "premium") >>
    ELSE NoUser

\* loadUserData: appState.userData and appState.isPremium follow the
\* profile; nothing changes when the request fails
loadUserData(appSt, cfg, user, acct, ok) ==
    LET profile == getUserProfile(cfg, user, acct, ok)
    IN  IF profile = NoUser THEN appSt
        ELSE [appSt EXCEPT !.userData = profile,
                           !.isPremium = profile[1].isPremium]

\* updateUI: exportBtn.disabled
updateUI(cfg, appSt) ==
    [disabled |-> ~appSt.isPremium /\ ~getConfig(cfg).demoMode]

\* updateAuthUI: the signup button is the logout button when api.user is set
updateAuthUI(user) == IF user # NoUser THEN "user" ELSE "guest"

\* exportToCSV without the premium test
exportToCSV_NoPremiumTest(cfg, user) == "csv"

\* api.exportToCSV: throws unless the user is premium or demo mode is on
exportToCSV(cfg, user) ==
    IF ~IsPremiumUser(user) /\ ~getApiConfig(cfg).demoMode THEN "error"
    ELSE "csv"

exportToPDF(cfg, user) ==
    IF ~IsPremiumUser(user) /\ ~getApiConfig(cfg).demoMode THEN "error"
    ELSE "url"

connectDevice(cfg, user) ==
    IF ~IsPremiumUser(user) /\ ~getApiConfig(cfg).demoMode THEN "error"
    ELSE "connected"

\* handleExport: "alert" (premium required), "error" (exportToCSV threw),
\* "download" (the CSV was downloaded)
handleExport(cfg, appSt, user) ==
    IF ~appSt.isPremium /\ ~getConfig(cfg).demoMode THEN "alert"
    ELSE IF exportToCSV(cfg, user) = "error" THEN "error"
    ELSE "download"

NoExport == [outcome |-> "none", premium |-> FALSE]

(***************************************************************************)
(* The chatbot: chatbot.js.  A text is the sequence of its characters.     *)
(***************************************************************************)
\* getChatbotConfig: { chatbot: { mockMode: false } } when CONFIG is not
\* loaded
getChatbotConfig(cfg) ==
    IF cfg.defined THEN cfg ELSE [defined |-> FALSE, mockMode |-> FALSE]

UpperCase ==
    <<"A", "B", "C", "D", "E", "F", "G", "H", "I", "J", "K", "L", "M", 
      "N", "O", "P", "Q", "R", "S", "T", "U", "V", "W", "X", "Y", "Z">>

LowerCase ==
    <<"a", "b", "c", "d", "e", "f", "g", "h", "i", "j", "k", "l", "m", 
      "n", "o", "p", "q", "r", "s", "t", "u", "v", "w", "x", "y", "z">>

\* String.prototype.toLowerCase on the letters A to Z
toLowerCase(text) ==
    [i \in 1..Len(text) |->
        IF \E k \in 1..26 : UpperCase[k] = text[i]
        THEN LowerCase[CHOOSE k \in 1..26 : UpperCase[k] = text[i]]
        ELSE text[i]]

\* String.prototype.includes
includes(text, keyword) ==
    \E i \in 0..(Len(text) - Len(keyword)) :
        \A j \in 1..Len(keyword) : text[i + j] = keyword[j]

\* String.prototype.trim, the space being the only white space in a text
trim(text) ==
    LET inked == { i \in 1..Len(text) : text[i] # " " }
    IN  IF inked = {} THEN << >>
        ELSE SubSeq(text, CHOOSE i \in inked : \A j \in inked : i <= j,
                          CHOOSE i \in inked : \A j \in inked : i >= j)

\* the keywords of the intents of processMockNLU
CalculateKeywords ==
    { <<"c", "a", "l", "c", "u", "l", "a", "t", "e">>,
      <<"e", "m", "i", "s", "s", "i", "o", "n">>,
      <<"f", "o", "o", "t", "p", "r", "i", "n", "t">> }

ReduceKeywords ==
    { <<"r", "e", "d", "u", "c", "e">>,
      <<"l", "o", "w", "e", "r">>,
      <<"d", "e", "c", "r", "e", "a", "s", "e">> }

TransportKeywords ==
    { <<"t", "r", "a", "n", "s", "p", "o", "r", "t">>,
      <<"c", "a", "r">>,
      <<"t", "r", "a", "v", "e", "l">> }

EnergyKeywords ==
    { <<"e", "n", "e", "r", "g", "y">>,
      <<"e", "l", "e", "c", "t", "r", "i", "c", "i", "t", "y">>,
      <<"p", "o", "w", "e", "r">> }

FoodKeywords ==
    { <<"f", "o", "o", "d">>,
      <<"m", "e", "a", "t">>,
      <<"d", "i", "e", "t">> }

PremiumKeywords ==
    { <<"p", "r", "e", "m", "i", "u", "m">>,
      <<"s", "u", "b", "s", "c", "r", "i", "b", "e">>,
      <<"u", "p", "g", "r", "a", "d", "e">> }

ExportKeywords ==
    { <<"e", "x", "p", "o", "r", "t">>,
      <<"r", "e", "p", "o", "r", "t">>,
      <<"p", "d", "f">>,
      <<"c", "s", "v">> }

PlanKeywords ==
    { <<"p", "l", "a", "n">>,
      <<"p", "e", "r", "s", "o", "n", "a", "l", "i", "z", "e", "d">>,
      <<"s", "t", "r", "a", "t", "e", "g", "y">> }

HelpKeywords ==
    { <<"h", "e", "l", "p">>,
      <<"w", "h", "a", "t", " ", "c", "a", "n", " ", "y", "o", "u">>,
      <<"c", "a", "p", "a", "b", "i", "l", "i", "t", "i", "e", "s">> }

GreetingKeywords ==
    { <<"h", "e", "l", "l", "o">>,
      <<"h", "i">>,
      <<"h", "e", "y">> }

\* the export answer without the premium test
ExportReply_NotGated(isPremium, cfg) == "exportInstructions"

\* the answer of the export intent: the upgrade prompt unless the chatbot's
\* user is premium or demo mode is on; CONFIG is read only for a user who is
\* not premium, and the read throws when CONFIG is not loaded
ExportReply(isPremium, cfg) ==
    IF isPremium THEN "exportInstructions"
    ELSE IF ~cfg.defined THEN "throw"
    ELSE IF ~cfg.demoMode THEN "exportUpgrade"
    ELSE "exportInstructions"

\* the answer of the plan intent
PlanReply(isPremium, cfg) ==
    IF isPremium THEN "plan"
    ELSE IF ~cfg.defined THEN "throw"
    ELSE IF ~cfg.demoMode THEN "planUpgrade"
    ELSE "plan"

\* a responder that tests the greeting keywords first and knows no other
\* intent
processMockNLU_GreetingOnly(isPremium, cfg, message) ==
    IF \E k \in GreetingKeywords : includes(toLowerCase(message), k)
    THEN "greeting"
    ELSE "default"

\* processMockNLU: which canned response the message gets
processMockNLU(isPremium, cfg, message) ==
    LET lowerMessage == toLowerCase(message)
        Has(keywords) == \E k \in keywords : includes(lowerMessage, k)
    IN  IF Has(CalculateKeywords) THEN "calculator"
        ELSE IF Has(ReduceKeywords) THEN "reduceTips"
        ELSE IF Has(TransportKeywords) THEN "transportTips"
        ELSE IF Has(EnergyKeywords) THEN "energyTips"
        ELSE IF Has(FoodKeywords) THEN "foodTips"
        ELSE IF Has(PremiumKeywords)
        THEN IF isPremium THEN "premiumAccess" ELSE "premiumInfo"
        ELSE IF Has(ExportKeywords) THEN ExportReply(isPremium, cfg)
        ELSE IF Has(PlanKeywords) THEN PlanReply(isPremium, cfg)
        ELSE IF Has(HelpKeywords) THEN "capabilities"
        ELSE IF Has(GreetingKeywords) THEN "greeting"
        ELSE "default"

\* saveConversationHistory keeps the last 50 messages
HistoryLimit == 50

\* Array.prototype.slice(-n)
SliceLast(s, n) == IF Len(s) <= n THEN s ELSE SubSeq(s, Len(s) - n + 1, Len(s))

\* saveConversationHistory storing the whole history
saveConversationHistory_NoSlice(conversationHistory) == conversationHistory

saveConversationHistory(conversationHistory) ==
    SliceLast(conversationHistory, HistoryLimit)

\* an entry of the conversation history; the content of an assistant entry
\* is the name of the response
Entry(role, content, t) == [role |-> role, content |-> content, timestamp |-> t]

\* new CarbonFootprintChatbot(options) at DOMContentLoaded: isPremium is
\* that of api.user, mockMode that of the configuration, and the history is
\* the stored one
CarbonFootprintChatbot(cfg, user, stored) ==
    [isPremium |-> IsPremiumUser(user),
     mockMode |-> getChatbotConfig(cfg).mockMode,
     conversationHistory |-> stored]

NoReply ==
    [sent |-> FALSE, message |-> << >>, response |-> "", source |-> "",
     isPremium |-> FALSE]

(***************************************************************************)
(* Bounds and input sets                                                   *)
(***************************************************************************)
MaxEdits == 2
MaxClock == 1
MaxSaves == 2
MaxOverrides == 1
MaxCheckouts == 2
MaxMessages == 1
MaxTurns == 2

\* a table with other values, a positive recyclingOffset above 1, demo mode
\* off and no conversions member
OtherFactors ==
    [transport |-> [car |-> Fin(1, 2), flightShort |-> Fin(1, 10),
                    publicTransport |-> Zero],
     energy    |-> [electricity |-> Fin(1, 4), gas |-> Num(5)],
     food      |-> [meatMeal |-> Num(7), dairyServing |-> Num(2)],
     waste     |-> [wasteBag |-> Num(2), recyclingOffset |-> Fin(3, 2)],
     shopping  |-> [general |-> Fin(1, 100), electronics |-> Num(40)]]

OtherCONFIG ==
    [defined |-> TRUE, demoMode |-> FALSE, hasEmissionFactors |-> TRUE,
     categories |-> Categories, emissionFactors |-> OtherFactors,
     kgToTonnes |-> NaN, mockMode |-> TRUE]

ValidConfigs ==
    { DefaultCONFIG, OtherCONFIG,
      [DefaultCONFIG EXCEPT !.kgToTonnes = Fin(2, 1000)] }

\* CONFIG not loaded; no emissionFactors; a category absent; a factor absent
BrokenConfigs ==
    { [DefaultCONFIG EXCEPT !.defined = FALSE],
      [DefaultCONFIG EXCEPT !.hasEmissionFactors = FALSE],
      [DefaultCONFIG EXCEPT !.categories = Categories \ {"waste"}],
      [DefaultCONFIG EXCEPT !.emissionFactors.transport.car = NaN] }

ConfigSet == ValidConfigs \cup BrokenConfigs

\* the configurations explored in sequences of operations
DeployedConfigs ==
    { DefaultCONFIG, OtherCONFIG,
      [DefaultCONFIG EXCEPT !.categories = Categories \ {"waste"}],
      [DefaultCONFIG EXCEPT !.hasEmissionFactors = FALSE] }

\* a factor table is valid when every category and every factor is present
\* and finite, and every factor but recyclingOffset is non-negative
ValidFactors(cfg) ==
    /\ cfg.hasEmissionFactors
    /\ cfg.categories = Categories
    /\ \A c \in Categories : \A x \in DOMAIN cfg.emissionFactors[c] :
          /\ cfg.emissionFactors[c][x].k = "fin"
          /\ x # "recyclingOffset" => cfg.emissionFactors[c][x].n >= 0
    /\ cfg.kgToTonnes.k = "fin" => cfg.kgToTonnes.n >= 0

\* texts a user may leave in any field
CommonTexts ==
    { EmptyText, Text(NaN, "abc"), Text(Num(-5), ""), Text(Zero, ""),
      Text(Num(20), "kg"), Text(PosInf, "") }

PercentTexts ==
    { Text(Num(-10), ""), Text(Num(100), ""), Text(Num(150), "") }

InputTexts(f) == IF f \in PercentFields THEN CommonTexts \cup PercentTexts
                 ELSE CommonTexts

EmptyForm == [f \in Fields |-> EmptyText]

NoCall ==
    [called |-> FALSE, outcome |-> "", result |-> FALSE, alert |-> FALSE,
     form |-> EmptyForm, store |-> << >>, previous |-> << >>]

\* what a user may type into the chatbot: nothing, spaces, and texts that
\* hold no keyword, one keyword, a keyword inside another word, or keywords
\* of several intents
Messages ==
    { << >>,
      <<" ", " ">>,
      <<"E", "x", "p", "o", "r", "t", " ", "m", "y", " ", "d", "a", "t", "a">>,
      <<"C", "S", "V">>,
      <<"p", "l", "a", "n", "e", "t">>,
      <<"E", "x", "p", "o", "r", "t", " ", "p", "l", "a", "n">>,
      <<"u", "p", "g", "r", "a", "d", "e", " ", "t", "o", " ", "e", "x", "p", "o", "r", "t">>,
      <<"c", "a", "r", "b", "o", "n", " ", "r", "e", "p", "o", "r", "t">>,
      <<"f", "o", "o", "t", "p", "r", "i", "n", "t", " ", "r", "e", "p", "o", "r", "t">>,
      <<"t", "h", "a", "n", "k", "s">>,
      <<" ", "H", "e", "l", "l", "o", " ">>,
      <<"r", "e", "d", "u", "c", "e", " ", "e", "n", "e", "r", "g", "y">>,
      <<"P", "o", "w", "e", "r">>,
      <<"d", "i", "e", "t">>,
      <<"w", "h", "a", "t", " ", "c", "a", "n", " ", "y", "o", "u", " ", "d", "o">> }

\* config.js as it is (demo mode, chat backend), demo mode off with the mock
\* responder and with the chat backend, and CONFIG not loaded
ChatConfigs ==
    { DefaultCONFIG, OtherCONFIG,
      [OtherCONFIG EXCEPT !.mockMode = FALSE],
      [DefaultCONFIG EXCEPT !.defined = FALSE] }

(***************************************************************************)
(* Operations                                                              *)
(***************************************************************************)
\* config.js is loaded (or not) before app.js runs
Init ==
    /\ CONFIG \in DeployedConfigs
    /\ elements = Fields
    /\ form = EmptyForm
    /\ appState = InitialAppState
    /\ carbonLogs = << >>
    /\ display = NoDisplay
    /\ calculateBtn = [disabled |-> FALSE]
    /\ pendingCalc = 0
    /\ lastCall = NoCall
    /\ lastSave = "none"
    /\ saves = 0
    /\ now = 0
    /\ edits = 0
    /\ initialized = FALSE
    /\ apiUser = NoUser
    /\ account = "none"
    /\ exportBtn = [disabled |-> FALSE]
    /\ authUI = "guest"
    /\ lastExport = NoExport
    /\ checkoutTimers = 0
    /\ checkouts = 0
    /\ lastAuth = "none"
    /\ chatbot = CarbonFootprintChatbot(CONFIG, NoUser, << >>)
    /\ chatbotHistory = << >>
    /\ pendingChat = << >>
    /\ lastReply = NoReply
    /\ sent = 0

\* loadDemoData writing the demo entries whatever the store holds
loadDemoData_Always(store, t) == demoLogs(t)

\* loadDemoData: the three demo entries are written when the store is empty
loadDemoData(store, t) ==
    IF Len(getCarbonLogs(store)) = 0 THEN demoLogs(t) ELSE store

\* setupAuth, loadUserData, loadDemoData in demo mode, updateUI; ok: the
\* profile request succeeds
initializeApp(ok) ==
    /\ ~initialized
    /\ initialized' = TRUE
    /\ authUI' = IF apiUser # NoUser THEN updateAuthUI(apiUser) ELSE authUI
    /\ appState' = loadUserData(appState, CONFIG, apiUser, account, ok)
    /\ carbonLogs' = IF getConfig(CONFIG).demoMode
                     THEN loadDemoData(carbonLogs, now)
                     ELSE carbonLogs
    /\ exportBtn' = updateUI(CONFIG, appState')
    /\ UNCHANGED <<CONFIG, elements, form, display, calculateBtn,
                   pendingCalc, lastCall, lastSave, saves, now, edits,
                   apiUser, account, lastExport, lastAuth, checkoutTimers,
                   checkouts>>
    /\ UNCHANGED chatVars

\* the user types into an input element
SetInput(f, text) ==
    /\ initialized
    /\ edits < MaxEdits
    /\ f \in elements
    /\ form[f] # text
    /\ form' = [form EXCEPT ![f] = text]
    /\ edits' = edits + 1
    /\ UNCHANGED <<CONFIG, elements, appState, carbonLogs, display,
                   calculateBtn, pendingCalc, lastCall, lastSave, saves, now,
                   initialized>>
    /\ UNCHANGED accountVars
    /\ UNCHANGED chatVars

\* a click handler that leaves the button enabled
ClickCalculate_NoDisable ==
    /\ initialized
    /\ pendingCalc < 2
    /\ pendingCalc' = pendingCalc + 1
    /\ UNCHANGED <<CONFIG, elements, form, appState, carbonLogs, display,
                   calculateBtn, lastCall, lastSave, saves, now, edits,
                   initialized>>
    /\ UNCHANGED accountVars
    /\ UNCHANGED chatVars

\* click on the calculate button (or Enter in a field): a disabled button
\* gets no click
ClickCalculate ==
    /\ initialized
    /\ ~calculateBtn.disabled
    /\ calculateBtn' = [disabled |-> TRUE]
    /\ pendingCalc' = pendingCalc + 1
    /\ UNCHANGED <<CONFIG, elements, form, appState, carbonLogs, display,
                   lastCall, lastSave, saves, now, edits, initialized>>
    /\ UNCHANGED accountVars
    /\ UNCHANGED chatVars

\* the timeout of the click handler: try calculateFootprint, finally enable
RunCalculate ==
    /\ pendingCalc > 0
    /\ \E r \in {calculateFootprint(CONFIG, elements, form, carbonLogs, now)} :
           /\ appState' = IF r.outcome = "noconfig" THEN appState
                          ELSE [appState EXCEPT
                                   !.currentCalculation = r.currentCalculation]
           /\ display' = IF r.outcome = "noconfig" THEN display ELSE r.display
           /\ lastCall' = [called |-> TRUE, outcome |-> r.outcome,
                           result |-> r.result, alert |-> r.alert,
                           form |-> form, store |-> carbonLogs,
                           previous |-> r.previous]
    /\ calculateBtn' = [disabled |-> FALSE]
    /\ pendingCalc' = pendingCalc - 1
    /\ carbonLogs' = StoreAfterCalculate(carbonLogs)
    /\ UNCHANGED <<CONFIG, elements, form, lastSave, saves, now, edits,
                   initialized>>
    /\ UNCHANGED accountVars
    /\ UNCHANGED chatVars

Tick ==
    /\ now < MaxClock
    /\ now' = now + 1
    /\ UNCHANGED <<CONFIG, elements, form, appState, carbonLogs, display,
                   calculateBtn, pendingCalc, lastCall, lastSave, saves, edits,
                   initialized>>
    /\ UNCHANGED accountVars
    /\ UNCHANGED chatVars

\* the comparison saveCalculation appends to the notes of the entry
NotesComparison(co2e, previousCalculation) ==
    IF previousCalculation # << >> /\ Truthy(previousCalculation[1].co2e)
    THEN Val({ IF Gt(MathAbs(difference), SignificantDifference)
               THEN IF Lt(difference, Zero) THEN "reduction" ELSE "increase"
               ELSE "calculated" :
               difference \in {Sub(co2e, PreviousValue(previousCalculation))} })
    ELSE "calculated"

\* getInputValue of saveCalculation: parseFloat(el.value) || 0
getInputValue(els, frm, id) ==
    IF id \in els
    THEN LET v == parseFloat(frm[id]) IN IF Truthy(v) THEN v ELSE Zero
    ELSE Zero

\* the input fields whose backend entry saveCalculation computes from the
\* factors of each category
CategoryInputs ==
    [transport |-> {"car-miles", "public-transport", "flights"},
     energy    |-> {"electricity", "gas"},
     food      |-> {"meat-meals", "dairy-products"},
     shopping  |-> {"shopping-spend", "electronics"},
     waste     |-> {"waste-bags"}]

\* saveCalculation reads factors.<category>.<factor> outside the inner try
\* blocks: a TypeError when the category is absent and an input is positive
SaveThrowsTypeError(cfg, els, frm) ==
    \E c \in Categories :
        /\ ~cfg.hasEmissionFactors \/ c \notin cfg.categories
        /\ \E id \in CategoryInputs[c] : Gt(getInputValue(els, frm, id), Zero)

\* backendOk: whether the POST /logs of api.saveCarbonLog succeeds when
\* demo mode is off
saveCalculation(backendOk) ==
    /\ initialized
    /\ IF appState.currentCalculation = << >>
       THEN /\ lastSave' = "nocalc"
            /\ UNCHANGED <<carbonLogs, saves>>
       ELSE /\ saves < MaxSaves
            /\ saves' = saves + 1
            /\ LET cur == appState.currentCalculation[1]
                   previousCalculation == getPreviousCalculation(carbonLogs)
                   logData ==
                       [category |-> cur.category, co2e |-> cur.co2e,
                        notes |-> NotesComparison(cur.co2e, previousCalculation)]
               IN  carbonLogs' = saveCarbonLog(carbonLogs, logData, now)
            /\ lastSave' =
                 IF ~getConfig(CONFIG).demoMode /\ ~backendOk THEN "error"
                 ELSE IF SaveThrowsTypeError(getConfig(CONFIG), elements, form)
                 THEN "error"
                 ELSE "saved"
    /\ UNCHANGED <<CONFIG, elements, form, appState, display, calculateBtn,
                   pendingCalc, lastCall, now, edits, initialized>>
    /\ UNCHANGED accountVars
    /\ UNCHANGED chatVars

\* the edits explored in sequences of operations
TypicalEdits ==
    { <<"car-miles", Text(Num(20), "")>>,
      <<"flights", Text(Num(1), "")>>, <<"flights", Text(PosInf, "")>>,
      <<"waste-bags", Text(Num(2), "")>>,
      <<"recycling-percent", Text(Num(100), "")>>,
      <<"gas", Text(Num(-5), "")>> }

Next ==
    \/ \E ok \in BOOLEAN : initializeApp(ok)
    \/ \E e \in TypicalEdits : SetInput(e[1], e[2])
    \/ ClickCalculate
    \/ RunCalculate
    \/ \E backendOk \in BOOLEAN : saveCalculation(backendOk)
    \/ Tick

Spec == Init /\ [][Next]_vars

(***************************************************************************)
(* Login, signup, logout, subscription and export                          *)
(***************************************************************************)
calculatorVars == <<CONFIG, elements, form, carbonLogs, display, calculateBtn,
                    pendingCalc, lastCall, lastSave, saves, now, edits>>

\* the user of the page is a premium user: in demo mode by api.user, which
\* is all there is; otherwise by the account the backend holds
PremiumUser ==
    IF getApiConfig(CONFIG).demoMode THEN IsPremiumUser(apiUser)
    ELSE account = "premium"

\* the end of handleLogin and handleSignup after a successful answer
SignIn(user, acct, profile) ==
    /\ apiUser' = user
    /\ account' = acct
    /\ appState' = [appState EXCEPT !.userData = profile,
                                    !.isPremium = profile[1].isPremium]
    /\ exportBtn' = updateUI(CONFIG, appState')
    /\ authUI' = updateAuthUI(apiUser')
    /\ lastAuth' = "in"

\* resp: the answer of POST /auth/login when demo mode is off: "fail", or
\* the user of a "free" or a "premium" account.  In demo mode api.login
\* makes a mock user and stores it; otherwise api.user is left as it is.
handleLogin(resp) ==
    /\ initialized
    /\ IF getApiConfig(CONFIG).demoMode
       THEN SignIn(<< User("demo-user-1", FALSE) >>, account,
                   << User("demo-user-1", FALSE) >>)
       ELSE IF resp = "fail"
       THEN UNCHANGED <<apiUser, account, appState, exportBtn, authUI,
                        lastAuth>>
       ELSE SignIn(apiUser, resp, << User("server", resp = "premium") >>)
    /\ UNCHANGED <<initialized, lastExport, checkoutTimers, checkouts>>
    /\ UNCHANGED calculatorVars
    /\ UNCHANGED chatVars

handleSignup(resp) ==
    /\ initialized
    /\ IF getApiConfig(CONFIG).demoMode
       THEN SignIn(<< User("demo-user-new", FALSE) >>, account,
                   << User("demo-user-new", FALSE) >>)
       ELSE IF resp = "fail"
       THEN UNCHANGED <<apiUser, account, appState, exportBtn, authUI,
                        lastAuth>>
       ELSE SignIn(apiUser, resp, << User("server", resp = "premium") >>)
    /\ UNCHANGED <<initialized, lastExport, checkoutTimers, checkouts>>
    /\ UNCHANGED calculatorVars
    /\ UNCHANGED chatVars

\* the signup button calls handleLogout once updateAuthUI has seen a user
handleLogout ==
    /\ initialized
    /\ authUI = "user"
    /\ apiUser' = NoUser
    /\ appState' = [appState EXCEPT !.userData = NoUser, !.isPremium = FALSE]
    /\ exportBtn' = updateUI(CONFIG, appState')
    /\ authUI' = updateAuthUI(apiUser')
    /\ lastAuth' = "out"
    /\ UNCHANGED <<initialized, account, lastExport, checkoutTimers,
                   checkouts>>
    /\ UNCHANGED calculatorVars
    /\ UNCHANGED chatVars

\* the page goes away: scripts, timers and the document are gone,
\* localStorage and the backend stay
PageUnload ==
    /\ initialized' = FALSE
    /\ appState' = InitialAppState
    /\ form' = EmptyForm
    /\ display' = NoDisplay
    /\ calculateBtn' = [disabled |-> FALSE]
    /\ exportBtn' = [disabled |-> FALSE]
    /\ authUI' = "guest"
    /\ pendingCalc' = 0
    /\ checkoutTimers' = 0
    /\ chatbot' = CarbonFootprintChatbot(CONFIG, apiUser, chatbotHistory)
    /\ pendingChat' = << >>
    /\ UNCHANGED <<CONFIG, elements, carbonLogs, lastCall, lastSave, saves,
                   now, edits, apiUser, lastExport, lastAuth, chatbotHistory,
                   lastReply, sent>>

\* resp: the outcome of the checkout when demo mode is off: "fail" (the
\* request fails), "free" (redirect to the checkout, not paid), "premium"
\* (redirect, paid).  In demo mode a timeout makes the user premium later.
handleSubscribe(resp) ==
    /\ initialized
    /\ checkouts < MaxCheckouts
    /\ checkouts' = checkouts + 1
    /\ IF getApiConfig(CONFIG).demoMode
       THEN /\ checkoutTimers' = checkoutTimers + 1
            /\ UNCHANGED <<initialized, apiUser, account, appState, exportBtn,
                           authUI, lastExport, lastAuth>>
            /\ UNCHANGED calculatorVars
            /\ UNCHANGED chatVars
       ELSE IF resp = "fail"
       THEN /\ UNCHANGED <<initialized, apiUser, account, appState, exportBtn,
                           authUI, lastExport, lastAuth, checkoutTimers>>
            /\ UNCHANGED calculatorVars
            /\ UNCHANGED chatVars
       ELSE /\ PageUnload
            /\ account' = IF resp = "premium" THEN "premium" ELSE account

\* the timeout of the demo checkout: api.user becomes premium, the
\* subscription-updated event sets appState.isPremium, updateUI
checkoutTimeout ==
    /\ checkoutTimers > 0
    /\ checkoutTimers' = checkoutTimers - 1
    /\ apiUser' = << User(IF apiUser = NoUser THEN "none" ELSE apiUser[1].id,
                          TRUE) >>
    /\ appState' = [appState EXCEPT !.isPremium = TRUE]
    /\ exportBtn' = updateUI(CONFIG, appState')
    /\ UNCHANGED <<initialized, account, authUI, lastExport, lastAuth,
                   checkouts>>
    /\ UNCHANGED calculatorVars
    /\ UNCHANGED chatVars

\* a click on the export button; a disabled button gets no click
clickExport ==
    /\ initialized
    /\ ~exportBtn.disabled
    /\ lastExport' = [outcome |-> handleExport(CONFIG, appState, apiUser),
                      premium |-> PremiumUser]
    /\ UNCHANGED <<initialized, apiUser, account, appState, exportBtn, authUI,
                   checkoutTimers, checkouts, lastAuth>>
    /\ UNCHANGED calculatorVars
    /\ UNCHANGED chatVars

Reload ==
    /\ initialized
    /\ PageUnload
    /\ UNCHANGED <<account, checkouts>>

\* the backend ends the subscription of the account
SubscriptionEnds ==
    /\ account = "premium"
    /\ account' = "free"
    /\ UNCHANGED <<initialized, apiUser, appState, exportBtn, authUI,
                   lastExport, lastAuth, checkoutTimers, checkouts>>
    /\ UNCHANGED calculatorVars
    /\ UNCHANGED chatVars

Responses == {"fail", "free", "premium"}

NextAccount ==
    \/ \E ok \in BOOLEAN : initializeApp(ok)
    \/ \E resp \in Responses : handleLogin(resp)
    \/ \E resp \in Responses : handleSignup(resp)
    \/ handleLogout
    \/ \E resp \in Responses : handleSubscribe(resp)
    \/ checkoutTimeout
    \/ clickExport
    \/ Reload
    \/ SubscriptionEnds

SpecAccount == Init /\ [][NextAccount]_vars

\* calculations and saves over several page loads
LoadEdits == { <<"car-miles", Text(Num(20), "")>> }

NextLoads ==
    \/ \E ok \in BOOLEAN : initializeApp(ok)
    \/ \E e \in LoadEdits : SetInput(e[1], e[2])
    \/ ClickCalculate
    \/ RunCalculate
    \/ \E backendOk \in BOOLEAN : saveCalculation(backendOk)
    \/ Tick
    \/ Reload

SpecLoads == Init /\ [][NextLoads]_vars

(***************************************************************************)
(* The chatbot: sendMessage and the answer of the chat backend             *)
(***************************************************************************)
Reply(message, response, source) ==
    [sent |-> TRUE, message |-> message, response |-> response,
     source |-> source, isPremium |-> chatbot.isPremium]

\* the end of processMessage and of sendMessage once the response is there:
\* the assistant entry and saveConversationHistory, or, when processMockNLU
\* threw, the error message of sendMessage and nothing else
Respond(history, message, response, source) ==
    IF response = "throw"
    THEN /\ chatbot' = [chatbot EXCEPT !.conversationHistory = history]
         /\ lastReply' = Reply(message, "error", "error")
         /\ UNCHANGED chatbotHistory
    ELSE /\ chatbot' = [chatbot EXCEPT !.conversationHistory =
                            Append(history,
                                   Entry("assistant", << response >>, now))]
         /\ chatbotHistory' =
                saveConversationHistory(chatbot'.conversationHistory)
         /\ lastReply' = Reply(message, response, source)

\* the send button, the Enter key or a quick reply with text in the input:
\* nothing for an empty message; the user entry; then the mock response at
\* once, or the request to the chat backend; limit bounds the messages sent
sendMessage(text, limit) ==
    /\ sent < limit
    /\ \E message \in { trim(text) } :
         IF message = << >> THEN UNCHANGED chatVars
         ELSE /\ sent' = sent + 1
              /\ \E asked \in { Append(chatbot.conversationHistory,
                                         Entry("user", message, now)) } :
                     IF chatbot.mockMode
                     THEN /\ \E response \in
                                 { processMockNLU(chatbot.isPremium, CONFIG,
                                                  message) } :
                               Respond(asked, message, response, "mock")
                          /\ UNCHANGED pendingChat
                     ELSE /\ chatbot' =
                                 [chatbot EXCEPT !.conversationHistory = asked]
                          /\ pendingChat' = Append(pendingChat, message)
                          /\ UNCHANGED <<chatbotHistory, lastReply>>
    /\ UNCHANGED <<initialized, appState>>
    /\ UNCHANGED calculatorVars
    /\ UNCHANGED accountVars

\* the request of the i-th message in flight ends: with the answer of the
\* backend (ok), or with a failure, and then processMockNLU answers
chatResponse(i, ok) ==
    /\ i \in DOMAIN pendingChat
    /\ sent' = sent
    /\ pendingChat' = [j \in 1..(Len(pendingChat) - 1) |->
                          IF j < i THEN pendingChat[j] ELSE pendingChat[j + 1]]
    /\ \E response \in
           { IF ok THEN "backend"
             ELSE processMockNLU(chatbot.isPremium, CONFIG, pendingChat[i]) } :
         Respond(chatbot.conversationHistory, pendingChat[i], response,
                 IF ok THEN "backend" ELSE "mock")
    /\ UNCHANGED <<initialized, appState>>
    /\ UNCHANGED calculatorVars
    /\ UNCHANGED accountVars

\* config.js is loaded (or not) before chatbot.js runs
InitChat ==
    /\ CONFIG \in ChatConfigs
    /\ elements = Fields
    /\ form = EmptyForm
    /\ appState = InitialAppState
    /\ carbonLogs = << >>
    /\ display = NoDisplay
    /\ calculateBtn = [disabled |-> FALSE]
    /\ pendingCalc = 0
    /\ lastCall = NoCall
    /\ lastSave = "none"
    /\ saves = 0
    /\ now = 0
    /\ edits = 0
    /\ initialized = FALSE
    /\ apiUser = NoUser
    /\ account = "none"
    /\ exportBtn = [disabled |-> FALSE]
    /\ authUI = "guest"
    /\ lastExport = NoExport
    /\ checkoutTimers = 0
    /\ checkouts = 0
    /\ lastAuth = "none"
    /\ chatbot = CarbonFootprintChatbot(CONFIG, NoUser, << >>)
    /\ chatbotHistory = << >>
    /\ pendingChat = << >>
    /\ lastReply = NoReply
    /\ sent = 0

NextChat ==
    \/ \E ok \in BOOLEAN : initializeApp(ok)
    \/ \E resp \in Responses : handleSubscribe(resp)
    \/ checkoutTimeout
    \/ Reload
    \/ \E text \in Messages : sendMessage(text, MaxMessages)
    \/ \E i \in 1..MaxMessages, ok \in BOOLEAN : chatResponse(i, ok)

SpecChat == InitChat /\ [][NextChat]_vars

(***************************************************************************)
(* The chatbot with a history stored by earlier visits, and a few turns    *)
(***************************************************************************)
\* n entries that earlier visits have stored, user and assistant in turn,
\* the i-th written at time i - n
StoredHistory(n) ==
    [i \in 1..n |->
        IF i % 2 = 1 THEN Entry("user", <<"h", "e", "l", "p">>, i - n)
        ELSE Entry("assistant", << "capabilities" >>, i - n)]

\* no history, a history one turn below the limit, a history at the limit
StoredLengths == { 0, HistoryLimit - 2, HistoryLimit }

HistoryMessages ==
    { <<"h", "e", "l", "p">>,
      <<"E", "x", "p", "o", "r", "t", " ", "m", "y", " ", "d", "a", "t", "a">> }

\* the mock responder, and the chat backend
HistoryConfigs == { OtherCONFIG, DefaultCONFIG }

InitHistory ==
    /\ CONFIG \in HistoryConfigs
    /\ elements = Fields
    /\ form = EmptyForm
    /\ appState = InitialAppState
    /\ carbonLogs = << >>
    /\ display = NoDisplay
    /\ calculateBtn = [disabled |-> FALSE]
    /\ pendingCalc = 0
    /\ lastCall = NoCall
    /\ lastSave = "none"
    /\ saves = 0
    /\ now = 0
    /\ edits = 0
    /\ initialized = FALSE
    /\ apiUser = NoUser
    /\ account = "none"
    /\ exportBtn = [disabled |-> FALSE]
    /\ authUI = "guest"
    /\ lastExport = NoExport
    /\ checkoutTimers = 0
    /\ checkouts = 0
    /\ lastAuth = "none"
    /\ chatbotHistory \in { StoredHistory(n) : n \in StoredLengths }
    /\ chatbot = CarbonFootprintChatbot(CONFIG, NoUser, chatbotHistory)
    /\ pendingChat = << >>
    /\ lastReply = NoReply
    /\ sent = 0

NextHistory ==
    \/ \E ok \in BOOLEAN : initializeApp(ok)
    \/ Reload
    \/ \E text \in HistoryMessages : sendMessage(text, MaxTurns)
    \/ \E i \in 1..MaxTurns, ok \in BOOLEAN : chatResponse(i, ok)

SpecHistory == InitHistory /\ [][NextHistory]_vars

(***************************************************************************)
(* calculateFootprint as a function of the form, the document, the         *)
(* configuration and the store: the calculate button has just been         *)
(* clicked on a form filled in any way                                     *)
(***************************************************************************)
ExampleForm ==
    [EmptyForm EXCEPT !["car-miles"] = Text(Num(20), ""),
                      !["electricity"] = Text(Num(10), ""),
                      !["renewable-percent"] = Text(Num(50), "")]

WasteForm ==
    [EmptyForm EXCEPT !["waste-bags"] = Text(Num(2), ""),
                      !["recycling-percent"] = Text(Num(100), "")]

FullForm ==
    [f \in Fields |-> IF f \in PercentFields THEN Text(Num(50), "")
                      ELSE Text(Num(2), "")]

BaseForms == { EmptyForm, ExampleForm, WasteForm, FullForm }

\* the forms that differ from a base form in at most n fields
RECURSIVE FormsWithin(_)
FormsWithin(n) ==
    IF n = 0 THEN BaseForms
    ELSE LET P == FormsWithin(n - 1)
         IN  P \cup UNION { { [g EXCEPT ![f] = t] : g \in P, t \in InputTexts(f) } :
                            f \in Fields }

InputForms == FormsWithin(MaxOverrides)

ElementSets == { Fields } \cup { Fields \ {f} : f \in Fields }

InitCalc ==
    /\ form \in InputForms
    /\ CONFIG \in IF form \in BaseForms THEN ConfigSet ELSE ValidConfigs
    /\ elements \in IF form \in BaseForms THEN ElementSets ELSE { Fields }
    /\ appState = loadUserData(InitialAppState, CONFIG, NoUser, "none", FALSE)
    /\ carbonLogs \in IF form \in BaseForms THEN { << >>, demoLogs(0) }
                      ELSE { << >> }
    /\ display = NoDisplay
    /\ calculateBtn = [disabled |-> TRUE]
    /\ pendingCalc = 1
    /\ lastCall = NoCall
    /\ lastSave = "none"
    /\ saves = 0
    /\ now = 0
    /\ edits = 0
    /\ initialized = TRUE
    /\ apiUser = NoUser
    /\ account = "none"
    /\ exportBtn = updateUI(CONFIG, appState)
    /\ authUI = "guest"
    /\ lastExport = NoExport
    /\ checkoutTimers = 0
    /\ checkouts = 0
    /\ lastAuth = "none"
    /\ chatbot = CarbonFootprintChatbot(CONFIG, NoUser, << >>)
    /\ chatbotHistory = << >>
    /\ pendingChat = << >>
    /\ lastReply = NoReply
    /\ sent = 0

SpecCalc == InitCalc /\ [][RunCalculate]_vars

\* the page is loaded, a form is filled in, nothing is clicked yet; the
\* store is empty, holds the demo data, or cannot be parsed
InitButton ==
    /\ form \in BaseForms
    /\ CONFIG \in ConfigSet
    /\ elements \in ElementSets
    /\ appState = loadUserData(InitialAppState, CONFIG, NoUser, "none", FALSE)
    /\ carbonLogs \in { << >>, demoLogs(0), CorruptStore }
    /\ display = NoDisplay
    /\ calculateBtn = [disabled |-> FALSE]
    /\ pendingCalc = 0
    /\ lastCall = NoCall
    /\ lastSave = "none"
    /\ saves = 0
    /\ now = 0
    /\ edits = 0
    /\ initialized = TRUE
    /\ apiUser = NoUser
    /\ account = "none"
    /\ exportBtn = updateUI(CONFIG, appState)
    /\ authUI = "guest"
    /\ lastExport = NoExport
    /\ checkoutTimers = 0
    /\ checkouts = 0
    /\ lastAuth = "none"
    /\ chatbot = CarbonFootprintChatbot(CONFIG, NoUser, << >>)
    /\ chatbotHistory = << >>
    /\ pendingChat = << >>
    /\ lastReply = NoReply
    /\ sent = 0

NextButton ==
    \/ ClickCalculate
    \/ RunCalculate

\* a step that runs a timeout of the click handler: in NextButton these are
\* the steps of RunCalculate, which is enabled whenever a timeout is pending
TimeoutRuns ==
    /\ pendingCalc > 0
    /\ pendingCalc' = pendingCalc - 1

\* the browser runs the timeout 100 ms after the click
SpecButton ==
    InitButton /\ [][NextButton]_vars /\ WF_pendingCalc(TimeoutRuns)

(***************************************************************************)
(* Properties                                                              *)
(***************************************************************************)
\* the result of the most recent successful calculation is still stored
Calculated ==
    /\ lastCall.called
    /\ lastCall.outcome = "ok"
    /\ appState.currentCalculation # << >>
    /\ appState.currentCalculation[1].breakdown # << >>

Stored == appState.currentCalculation[1]
StoredBreakdown == appState.currentCalculation[1].breakdown[1]

\* the sanitized quantity of a field of the form of the most recent call:
\* 0 when the element is absent or its text is no number or negative
Quantity(id) ==
    LET v == lastCall.form[id].num
    IN  IF id \notin elements THEN Zero
        ELSE IF v.k = "nan" THEN Zero
        ELSE IF v.k = "fin" /\ v.n < 0 THEN Zero
        ELSE IF v.k = "inf" /\ v.n < 0 THEN Zero
        ELSE v

\* a percent field, sanitized and clamped to [0, 100]
Percent(id) ==
    LET q == Quantity(id)
    IN  IF q.k = "inf" THEN Num(100)
        ELSE IF q.n > 100 * q.d THEN Num(100) ELSE q

UsedFactors == getConfig(CONFIG).emissionFactors
UsedKgToTonnes == KgToTonnes(getConfig(CONFIG))

SpecTransportKg ==
    Add(Add(Mul(Quantity("car-miles"), UsedFactors.transport.car),
            Mul(Mul(Quantity("flights"), Num(1000)),
                UsedFactors.transport.flightShort)),
        Mul(Quantity("public-transport"), UsedFactors.transport.publicTransport))

SpecEnergyKg ==
    Add(Mul(Mul(Quantity("electricity"), UsedFactors.energy.electricity),
            Sub(Num(1), Div(Percent("renewable-percent"), Num(100)))),
        Mul(Quantity("gas"), UsedFactors.energy.gas))

SpecFoodKg ==
    LET r == MathMax(Fin(8, 10),
                     Sub(Num(1), Mul(Div(Percent("local-food"), Num(100)),
                                     Fin(2, 10))))
    IN  Add(Mul(Mul(Quantity("meat-meals"), UsedFactors.food.meatMeal), r),
            Mul(Quantity("dairy-products"), UsedFactors.food.dairyServing))

SpecWasteKg ==
    LET w == Mul(Quantity("waste-bags"), UsedFactors.waste.wasteBag)
    IN  Sub(w, Mul(Mul(w, Div(Percent("recycling-percent"), Num(100))),
                   MathAbs(UsedFactors.waste.recyclingOffset)))

SpecShoppingKg ==
    Add(Mul(Quantity("shopping-spend"), UsedFactors.shopping.general),
        Mul(Quantity("electronics"), UsedFactors.shopping.electronics))

SpecTotalKg ==
    Add(Add(Add(Add(SpecTransportKg, SpecEnergyKg), SpecFoodKg), SpecWasteKg),
        SpecShoppingKg)

NonNegative(a) == a.k \in {"fin", "inf"} /\ a.n >= 0

\* C1: after a successful calculation with a valid factor table the
\* breakdown holds transport = car*car + flights*1000*flightShort +
\* public*publicTransport, energy = kWh*electricity*(1 - renewable/100) +
\* therms*gas, shopping = spend*general + items*electronics, each times
\* kgToTonnes, and co2e is the sum of the five categories times kgToTonnes
\* whenever that sum is non-negative; 20 car miles, 10 kWh and 50%
\* renewable with the default factors give 0.009365 tonnes.
C1_Formulas ==
    (Calculated /\ ValidFactors(getConfig(CONFIG))) =>
        /\ StoredBreakdown.transport = Mul(SpecTransportKg, UsedKgToTonnes)
        /\ StoredBreakdown.energy = Mul(SpecEnergyKg, UsedKgToTonnes)
        /\ StoredBreakdown.shopping = Mul(SpecShoppingKg, UsedKgToTonnes)
        /\ NonNegative(SpecTotalKg) =>
              Stored.co2e = Mul(SpecTotalKg, UsedKgToTonnes)
        /\ (lastCall.form = ExampleForm /\ elements = Fields
              /\ CONFIG = DefaultCONFIG) =>
              /\ StoredBreakdown.transport = Fin(82, 10000)
              /\ StoredBreakdown.energy = Fin(1165, 1000000)
              /\ Stored.co2e = Fin(9365, 1000000)

C1_Witness ==
    /\ Calculated
    /\ lastCall.form = ExampleForm
    /\ elements = Fields
    /\ CONFIG = DefaultCONFIG
    /\ Stored.co2e = Fin(9365, 1000000)

\* C2: whenever appState.currentCalculation is present and the factors are
\* valid, its co2e is a number that is neither NaN nor negative.
C2_NonNegativeTotal ==
    (appState.currentCalculation # << >> /\ ValidFactors(getConfig(CONFIG))) =>
        /\ appState.currentCalculation[1].co2e.k \in {"fin", "inf"}
        /\ appState.currentCalculation[1].co2e.n >= 0

\* a calculation whose categories sum to less than 0 has been stored
C2_Witness ==
    /\ Calculated
    /\ ValidFactors(getConfig(CONFIG))
    /\ Lt(SpecTotalKg, Zero)
    /\ Stored.co2e = Zero

\* the emission-factor table is there and has every category and factor
TableComplete(cfg) ==
    /\ cfg.defined
    /\ cfg.hasEmissionFactors
    /\ cfg.categories = Categories
    /\ \A c \in Categories : \A x \in DOMAIN cfg.emissionFactors[c] :
          cfg.emissionFactors[c][x].k # "nan"

\* C3: with a missing or incomplete emission-factor table the calculation
\* ends in an error: it does not report success (return true).
C3_FailsLoudly ==
    (lastCall.called /\ ~TableComplete(CONFIG)) => ~lastCall.result

\* what the calculation stores for another document and form, everything
\* else as in the most recent call
StoredFor(els, frm) ==
    calculateFootprint(CONFIG, els, frm, lastCall.store, now).currentCalculation

SameResult(cur) ==
    /\ cur # << >>
    /\ cur[1].co2e = Stored.co2e
    /\ cur[1].breakdown = Stored.breakdown

Unusable(f) ==
    \/ f \notin elements
    \/ lastCall.form[f].num.k = "nan"
    \/ lastCall.form[f].num.n < 0

\* C4: a field whose element is absent, whose text is no number, or whose
\* value is negative gives the stored co2e and breakdown that the text "0"
\* in that field gives, the other fields being the same.
C4_UnusableIsZero ==
    (lastCall.called /\ appState.currentCalculation # << >>) =>
        \A f \in Fields :
            Unusable(f) =>
                SameResult(StoredFor(elements \cup {f},
                                     [lastCall.form EXCEPT ![f] = Text(Zero, "")]))

\* a negative value in a field that has a factor, next to a positive total
C4_Witness ==
    /\ Calculated
    /\ CONFIG = DefaultCONFIG
    /\ elements = Fields
    /\ lastCall.form["gas"] = Text(Num(-5), "")
    /\ Gt(Stored.co2e, Zero)

\* C5: a percent field above 100 gives the result that 100 gives, and one
\* below 0 the result that 0 gives, whatever the other fields hold.
C5_PercentClamped ==
    (lastCall.called /\ appState.currentCalculation # << >>) =>
        \A f \in PercentFields \cap elements :
            LET v == lastCall.form[f].num
            IN  /\ (v.k # "nan" /\ v.n > 100 * v.d) =>
                     SameResult(StoredFor(elements,
                         [lastCall.form EXCEPT ![f] = Text(Num(100), "")]))
                /\ (v.k # "nan" /\ v.n < 0) =>
                     SameResult(StoredFor(elements,
                         [lastCall.form EXCEPT ![f] = Text(Zero, "")]))

\* 150% renewable next to electricity and gas
C5_Witness ==
    /\ Calculated
    /\ CONFIG = DefaultCONFIG
    /\ elements = Fields
    /\ lastCall.form["renewable-percent"] = Text(Num(150), "")
    /\ lastCall.form["electricity"] = Text(Num(2), "")
    /\ StoredBreakdown.energy = Fin(106, 10000)

AllEmptyOrZero ==
    \A f \in Fields :
        f \notin elements \/ lastCall.form[f] \in {EmptyText, Text(Zero, "")}

\* C6: with every field empty or zero and a valid factor table the total
\* is exactly 0 and so is every category of the breakdown.
C6_ZeroInZeroOut ==
    (lastCall.called /\ ValidFactors(getConfig(CONFIG)) /\ AllEmptyOrZero) =>
        /\ Calculated
        /\ Stored.co2e = Zero
        /\ \A c \in Categories : StoredBreakdown[c] = Zero

C6_Witness ==
    /\ Calculated
    /\ CONFIG = OtherCONFIG
    /\ AllEmptyOrZero
    /\ lastCall.form["flights"] = Text(Zero, "")
    /\ Stored.co2e = Zero

\* C10: the waste category is bags*wasteBag less bags*wasteBag*
\* (recycling/100)*|recyclingOffset|, times kgToTonnes, and is stored
\* without a floor at 0: 2 bags at 100% recycling with wasteBag 2.5 and
\* recyclingOffset -1.2 store -1.0 kg; only the total is 0 when the
\* categories sum to less than 0.
C10_WasteNotFloored ==
    (Calculated /\ ValidFactors(getConfig(CONFIG))) =>
        /\ StoredBreakdown.waste = Mul(SpecWasteKg, UsedKgToTonnes)
        /\ Lt(SpecTotalKg, Zero) => Stored.co2e = Zero
        /\ (lastCall.form = WasteForm /\ elements = Fields
              /\ CONFIG = DefaultCONFIG) =>
              /\ StoredBreakdown.waste = Fin(-1, 1000)
              /\ Stored.co2e = Zero

C10_Witness ==
    /\ Calculated
    /\ lastCall.form = WasteForm
    /\ elements = Fields
    /\ CONFIG = DefaultCONFIG
    /\ StoredBreakdown.waste = Fin(-1, 1000)
    /\ Stored.co2e = Zero

Previous == lastCall.previous[1]

PositiveNumber(a) == a.k \in {"fin", "inf"} /\ a.n > 0

\* the direction of section 4.2 for a difference of delta tonnes
Classify(delta) ==
    IF Lt(delta, Fin(-1, 100)) THEN "reduction"
    ELSE IF Gt(delta, Fin(1, 100)) THEN "increase"
    ELSE "unchanged"

\* C7: with a previous entry whose co2e is a positive number, the comparison
\* displayed with the result is 'reduction' when current - previous < -0.01,
\* 'increase' when it is > 0.01 and 'unchanged' otherwise, for every
\* current total, 0 included.
C7_Classified ==
    (Calculated /\ lastCall.previous # << >> /\ PositiveNumber(Previous.co2e)) =>
        display.comparison.direction = Classify(Sub(Stored.co2e, Previous.co2e))

C9_PercentChange ==
    (lastCall.called /\ display.comparison.direction \in {"reduction", "increase"}) =>
        /\ Calculated
        /\ lastCall.previous # << >>
        /\ PositiveNumber(Previous.co2e)
        /\ display.comparison.difference = Sub(Stored.co2e, Previous.co2e)
        /\ display.comparison.percentChange =
              Mul(Div(Sub(Stored.co2e, Previous.co2e), Previous.co2e), Num(100))

\* an increase over an entry saved from the calculator
C9_Witness ==
    /\ Calculated
    /\ display.comparison.direction = "increase"
    /\ lastCall.previous # << >>
    /\ Previous.id[1] = "log"
    /\ Stored.co2e.k = "fin"
    /\ display.comparison.percentChange =
          Mul(Div(Sub(Stored.co2e, Previous.co2e), Previous.co2e), Num(100))

\* C11: the food category is meals*meatMeal*r + servings*dairyServing, times
\* kgToTonnes, with r = max(0.8, 1 - (local/100)*0.2); r is a number from
\* 0.8 to 1 for every text of the local-food field.
C11_FoodLocalSourcing ==
    (Calculated /\ ValidFactors(getConfig(CONFIG))) =>
        LET r == MeatReduction(elements, lastCall.form)
        IN  /\ StoredBreakdown.food = Mul(SpecFoodKg, UsedKgToTonnes)
            /\ r.k = "fin"
            /\ ~Lt(r, Fin(8, 10))
            /\ ~Gt(r, Num(1))
            /\ (lastCall.form = FullForm /\ elements = Fields
                  /\ CONFIG = DefaultCONFIG) =>
                  /\ r = Fin(9, 10)
                  /\ StoredBreakdown.food = Fin(17942, 1000000)

\* 2 meat meals and 2 dairy servings at 50% local food
C11_Witness ==
    /\ Calculated
    /\ lastCall.form = FullForm
    /\ elements = Fields
    /\ CONFIG = DefaultCONFIG
    /\ MeatReduction(elements, lastCall.form) = Fin(9, 10)
    /\ StoredBreakdown.food = Fin(17942, 1000000)

\* totalTonnes of the most recent call, before finalTotalTonnes
ComputedTotalTonnes ==
    TotalTonnes(TransportKg(elements, lastCall.form, UsedFactors),
                EnergyKg(elements, lastCall.form, UsedFactors),
                FoodKg(elements, lastCall.form, UsedFactors),
                WasteKg(elements, lastCall.form, UsedFactors),
                ShoppingKg(elements, lastCall.form, UsedFactors),
                UsedKgToTonnes)

\* C12: when the computed total in tonnes is NaN, infinite or negative, the
\* stored total and the displayed total are 0.
C12_NonFiniteIsZero ==
    (Calculated /\ (ComputedTotalTonnes.k # "fin" \/ ComputedTotalTonnes.n < 0)) =>
        /\ Stored.co2e = Zero
        /\ display.value = Zero

BreakdownSum ==
    Add(Add(Add(Add(StoredBreakdown.transport, StoredBreakdown.energy),
                StoredBreakdown.food), StoredBreakdown.waste),
        StoredBreakdown.shopping)

\* finalTotalTonnes replaced the computed total by 0
TotalClamped == IsNaN(ComputedTotalTonnes) \/ Lt(ComputedTotalTonnes, Zero)

\* C13: after a successful calculation the five entries of the breakdown
\* add up to the stored co2e, unless the total was replaced by 0.
C13_BreakdownSum ==
    (Calculated /\ ~TotalClamped) => BreakdownSum = Stored.co2e

\* every category contributes and the total is finite and not replaced
C13_Witness ==
    /\ Calculated
    /\ ~TotalClamped
    /\ \A c \in Categories : Gt(StoredBreakdown[c], Zero)
    /\ Stored.co2e.k = "fin"
    /\ BreakdownSum = Stored.co2e

\* a field of the most recent call is empty, not a number, negative, or a
\* percent outside 0..100
Malformed(f) ==
    LET v == lastCall.form[f].num
    IN  \/ v.k = "nan"
        \/ v.n < 0
        \/ f \in PercentFields /\ (v.k = "inf" \/ v.n > 100 * v.d)

\* C14: with a valid factor table, whatever the fields hold and whichever
\* input elements the document has, calculateFootprint does not enter its
\* catch block, returns true and stores a result with a breakdown, and the
\* click handler ends with the button enabled.
C14_NeverThrows ==
    (lastCall.called /\ ValidFactors(getConfig(CONFIG))) =>
        /\ lastCall.outcome = "ok"
        /\ lastCall.result
        /\ ~lastCall.alert
        /\ Calculated
        /\ pendingCalc = 0 => ~calculateBtn.disabled

\* text that is no number in one field, next to filled fields
C14_Witness ==
    /\ Calculated
    /\ lastCall.result
    /\ ValidFactors(getConfig(CONFIG))
    /\ lastCall.form["gas"] = Text(NaN, "abc")
    /\ lastCall.form["car-miles"] = Text(Num(2), "")
    /\ \E f \in Fields : Malformed(f)

\* what calculateFootprint stores for the form as it is on a first run: an
\* empty store, at time 0
FirstRun ==
    calculateFootprint(CONFIG, elements, form, << >>, 0).currentCalculation

\* C15: the co2e and the breakdown a calculation stores are those the same
\* inputs and factor table give on a first run, whatever the store holds,
\* whatever was calculated and saved before, and whenever it runs; so two
\* calculations with the same inputs store the same co2e and breakdown.
C15_Deterministic ==
    [][(pendingCalc' < pendingCalc /\ lastCall'.called
           /\ appState'.currentCalculation # << >>) =>
          \A first \in { FirstRun } :
              /\ first # << >>
              /\ first[1].co2e = appState'.currentCalculation[1].co2e
              /\ first[1].breakdown =
                     appState'.currentCalculation[1].breakdown]_vars

\* the inputs were calculated and saved before, and are calculated again
\* later on a store that holds the saved entry
C15_Witness ==
    /\ Calculated
    /\ Gt(Stored.co2e, Zero)
    /\ Stored.timestamp > 0
    /\ \E i \in 1..Len(lastCall.store) :
          /\ lastCall.store[i].id[1] = "log"
          /\ lastCall.store[i].timestamp < Stored.timestamp
          /\ lastCall.store[i].co2e = Stored.co2e

\* C16: a step that runs calculateFootprint leaves carbonLogs as it is, and
\* carbonLogs changes only in a step of saveCalculation that saves an entry
\* (or when initializeApp loads the demo data).
C16_CalculateKeepsStore ==
    [][/\ pendingCalc' < pendingCalc => carbonLogs' = carbonLogs
       /\ carbonLogs' # carbonLogs =>
             \/ saves' = saves + 1
             \/ ~initialized /\ initialized']_vars

\* a calculation has run on a store that holds a saved entry, and the store
\* is what it was when the calculation started
C16_Witness ==
    /\ Calculated
    /\ Len(lastCall.store) > 1
    /\ \E i \in 1..Len(lastCall.store) : lastCall.store[i].id[1] = "log"
    /\ carbonLogs = lastCall.store

\* C17: getPreviousCalculation is null on an empty store, and on any other
\* store it is one of the stored entries, with a timestamp that no stored
\* entry exceeds.
C17_MostRecent ==
    \A previousCalculation \in { getPreviousCalculation(carbonLogs) } :
        IF carbonLogs = << >> THEN previousCalculation = << >>
        ELSE /\ previousCalculation # << >>
             /\ \E i \in 1..Len(carbonLogs) :
                   carbonLogs[i] = previousCalculation[1]
             /\ \A i \in 1..Len(carbonLogs) :
                   carbonLogs[i].timestamp <= previousCalculation[1].timestamp

\* the demo data and two saved entries, the most recent being the last of
\* the array
C17_Witness ==
    /\ Len(carbonLogs) = 5
    /\ carbonLogs[1].id[1] = "demo"
    /\ carbonLogs[4].timestamp < carbonLogs[5].timestamp
    /\ getPreviousCalculation(carbonLogs) = << carbonLogs[5] >>

\* C18: a step that saves an entry leaves carbonLogs one entry longer: the
\* entries it held, unchanged and in their order, followed by the new entry
\* with the category and the co2e of the current calculation; getCarbonLogs
\* returns the whole array.
C18_AppendsOne ==
    [][saves' = saves + 1 =>
          /\ Len(carbonLogs') = Len(carbonLogs) + 1
          /\ SubSeq(carbonLogs', 1, Len(carbonLogs)) = carbonLogs
          /\ carbonLogs'[Len(carbonLogs')].id = <<"log", now>>
          /\ carbonLogs'[Len(carbonLogs')].timestamp = now
          /\ carbonLogs'[Len(carbonLogs')].category = Stored.category
          /\ carbonLogs'[Len(carbonLogs')].co2e = JSONNumber(Stored.co2e)
          /\ getCarbonLogs(carbonLogs') = carbonLogs']_vars

\* one entry saved after the demo data
C18_Witness ==
    /\ saves = 1
    /\ Len(carbonLogs) = 4
    /\ \E t \in 0..MaxClock : SubSeq(carbonLogs, 1, 3) = demoLogs(t)
    /\ carbonLogs[4].id[1] = "log"
    /\ Gt(carbonLogs[4].co2e, Zero)

\* C19: with demo mode off and a user who is not premium, exportToCSV,
\* exportToPDF and connectDevice end in an error, and no handleExport of
\* such a user ended in a download.
C19_ExportPremiumOnly ==
    ~getApiConfig(CONFIG).demoMode =>
        /\ ~PremiumUser =>
              /\ exportToCSV(CONFIG, apiUser) = "error"
              /\ exportToPDF(CONFIG, apiUser) = "error"
              /\ connectDevice(CONFIG, apiUser) = "error"
        /\ lastExport.outcome = "download" => lastExport.premium

\* demo mode is off, the subscription of the account has ended while the
\* page still holds isPremium, and the export of this user ended in an error
C19_Witness ==
    /\ ~getApiConfig(CONFIG).demoMode
    /\ account = "free"
    /\ appState.isPremium
    /\ ~exportBtn.disabled
    /\ lastExport = [outcome |-> "error", premium |-> FALSE]

\* demo mode is off: CONFIG is loaded and its demoMode is false
DemoModeOff == CONFIG.defined /\ ~CONFIG.demoMode

\* some keyword of the set occurs in the lower-cased message
Mentions(message, keywords) ==
    \E k \in keywords : includes(toLowerCase(message), k)

\* the message reaches the export intent: an export keyword occurs in it and
\* no keyword of the six intents tested before
ReachesExportIntent(message) ==
    /\ Mentions(message, ExportKeywords)
    /\ ~Mentions(message, CalculateKeywords \cup ReduceKeywords
                   \cup TransportKeywords \cup EnergyKeywords
                   \cup FoodKeywords \cup PremiumKeywords)

\* the message reaches the plan intent
ReachesPlanIntent(message) ==
    /\ Mentions(message, PlanKeywords)
    /\ ~Mentions(message, CalculateKeywords \cup ReduceKeywords
                   \cup TransportKeywords \cup EnergyKeywords
                   \cup FoodKeywords \cup PremiumKeywords
                   \cup ExportKeywords)

\* C20: with demo mode off and a chatbot whose user is not premium, the mock
\* responder never answers with the export instructions or the personalized
\* reduction plan; a message that reaches the export intent or the plan
\* intent gets the upgrade prompt of that intent
C20_ChatbotPremiumGate ==
    (DemoModeOff /\ lastReply.sent /\ lastReply.source = "mock"
        /\ ~lastReply.isPremium) =>
        /\ lastReply.response \notin {"exportInstructions", "plan"}
        /\ ReachesExportIntent(lastReply.message) =>
               lastReply.response = "exportUpgrade"
        /\ ReachesPlanIntent(lastReply.message) =>
               lastReply.response = "planUpgrade"

\* with demo mode off the mock responder has answered a message that reached
\* the export intent for a user who is not premium, with the upgrade prompt
C20_Witness ==
    /\ DemoModeOff
    /\ lastReply.sent
    /\ lastReply.source = "mock"
    /\ ~lastReply.isPremium
    /\ ReachesExportIntent(lastReply.message)
    /\ lastReply.response = "exportUpgrade"

\* the ten intents in the order of the claim, each with its keywords and
\* the responses that are its own
IntentOrder ==
    << [keywords |-> CalculateKeywords, responses |-> {"calculator"}],
       [keywords |-> ReduceKeywords, responses |-> {"reduceTips"}],
       [keywords |-> TransportKeywords, responses |-> {"transportTips"}],
       [keywords |-> EnergyKeywords, responses |-> {"energyTips"}],
       [keywords |-> FoodKeywords, responses |-> {"foodTips"}],
       [keywords |-> PremiumKeywords,
        responses |-> {"premiumAccess", "premiumInfo"}],
       [keywords |-> ExportKeywords,
        responses |-> {"exportUpgrade", "exportInstructions"}],
       [keywords |-> PlanKeywords, responses |-> {"planUpgrade", "plan"}],
       [keywords |-> HelpKeywords, responses |-> {"capabilities"}],
       [keywords |-> GreetingKeywords, responses |-> {"greeting"}] >>

\* the intents one of whose keywords occurs in the lower-cased message
Matching(message) ==
    { n \in DOMAIN IntentOrder : Mentions(message, IntentOrder[n].keywords) }

\* C21: every response of the mock responder is one of the first intent, in
\* the order calculate, reduce, transport, energy, food, premium, export,
\* plan, help, greeting, one of whose keywords occurs in the lower-cased
\* message; it is the default response exactly when no keyword occurs
C21_FirstMatch ==
    (lastReply.sent /\ lastReply.source = "mock") =>
        \A matching \in { Matching(lastReply.message) } :
            /\ lastReply.response = "default" <=> matching = {}
            /\ matching # {} =>
                  \E n \in matching :
                      /\ \A m \in matching : n <= m
                      /\ lastReply.response \in IntentOrder[n].responses

\* the mock responder has answered a message that holds keywords of two
\* intents with the response of the earlier one, a keyword lying inside
\* another word
C21_Witness ==
    /\ lastReply.sent
    /\ lastReply.source = "mock"
    /\ Matching(lastReply.message) = {3, 7}
    /\ lastReply.response = "transportTips"

\* C22: the stored chatbot_history never holds more than 50 entries, and
\* every step in which the chatbot records its reply to a message stores
\* the last 50 entries of the in-memory history, in their order
C22_HistoryKept ==
    [][/\ Len(chatbotHistory') <= 50
       /\ lastReply' # lastReply /\ lastReply'.source # "error" =>
             \A h \in { chatbot'.conversationHistory } :
                 /\ Len(chatbotHistory') = IF Len(h) < 50 THEN Len(h) ELSE 50
                 /\ \A i \in 1..Len(chatbotHistory') :
                       chatbotHistory'[i] =
                           h[Len(h) - Len(chatbotHistory') + i]]_vars

\* the in-memory history holds more than 50 entries and the stored one its
\* last 50, the oldest stored entry being the third of the in-memory history
C22_Witness ==
    /\ Len(chatbot.conversationHistory) = 52
    /\ Len(chatbotHistory) = 50
    /\ chatbotHistory[1] = chatbot.conversationHistory[3]
    /\ chatbotHistory[1] # chatbot.conversationHistory[1]
    /\ chatbotHistory[50] = chatbot.conversationHistory[52]

\* C23: when CONFIG is not loaded, no message to the chatbot ends in the
\* error message of sendMessage: the mock responder answers every intent
C23_NoConfigError ==
    (~CONFIG.defined /\ lastReply.sent) => lastReply.source # "error"

\* C24: while a calculation is pending the calculate button is disabled, at
\* most one calculation is pending, the button is disabled only while one
\* is pending, and a disabled button is enabled again, however the
\* calculation ends
C24_ButtonDisabledWhilePending ==
    /\ [](pendingCalc > 0 <=> calculateBtn.disabled)
    /\ [](pendingCalc <= 1)
    /\ (calculateBtn.disabled ~> ~calculateBtn.disabled)

\* a calculation that was requested by a click has ended in the catch
\* block of calculateFootprint and returned false, and the button is enabled
C24_Witness ==
    /\ lastCall.called
    /\ lastCall.outcome = "catch"
    /\ ~lastCall.result
    /\ pendingCalc = 0
    /\ ~calculateBtn.disabled

\* C25: a saveCalculation that reports success leaves the store one entry
\* longer, the new entry holding the co2e of the current calculation; one
\* that reports an error, or finds no current calculation, leaves the store
\* as it is
C25_SaveOneOrNone ==
    [][/\ (saves' = saves + 1 /\ lastSave' = "saved") =>
             /\ Len(carbonLogs') = Len(carbonLogs) + 1
             /\ carbonLogs'[Len(carbonLogs')].co2e = JSONNumber(Stored.co2e)
       /\ (saves' = saves + 1 /\ lastSave' = "error") =>
             carbonLogs' = carbonLogs
       /\ (lastSave' = "nocalc" /\ appState.currentCalculation = << >>) =>
             carbonLogs' = carbonLogs]_vars

\* C26: when the store cannot be read during a calculation whose inputs and
\* factor table give a total, the stored co2e and breakdown and the value
\* displayed are those the same calculation gives on an empty store
C26_ReadFailureKeepsResult ==
    (/\ lastCall.called
     /\ ~Readable(lastCall.store)
     /\ getConfig(CONFIG).hasEmissionFactors
     /\ getConfig(CONFIG).categories = Categories) =>
        \A r \in { calculateFootprint(CONFIG, elements, lastCall.form,
                                      << >>, 0) } :
            /\ appState.currentCalculation # << >>
            /\ Stored.co2e = r.currentCalculation[1].co2e
            /\ Stored.breakdown = r.currentCalculation[1].breakdown
            /\ display.value = r.display.value

\* C27: once every message sent has its reply, each user entry of the
\* conversation history is immediately followed by an assistant entry
C27_Paired ==
    pendingChat = << >> =>
        \A h \in { chatbot.conversationHistory } :
            \A i \in 1..Len(h) :
                h[i].role = "user" =>
                    /\ i < Len(h)
                    /\ h[i + 1].role = "assistant"

\* C28: in demo mode, from a logout until the next login or signup that
\* succeeds, api.user (and with it the stored user) is absent and
\* appState.isPremium is false, whatever checkout was started before
C28_LogoutSticks ==
    (getApiConfig(CONFIG).demoMode /\ lastAuth = "out") =>
        /\ apiUser = NoUser
        /\ ~appState.isPremium

\* C29: a page load leaves a store that holds an entry as it is, and no
\* step removes or changes an entry of the store: entries are only added
\* after those the store holds
C29_DemoDataOnlyWhenEmpty ==
    [][/\ (~initialized /\ initialized' /\ carbonLogs # << >>) =>
             carbonLogs' = carbonLogs
       /\ Len(carbonLogs') >= Len(carbonLogs)
       /\ \A i \in 1..Len(carbonLogs) : carbonLogs'[i] = carbonLogs[i]]_vars

\* in demo mode the page has been loaded again after a calculation was
\* saved: the store holds the demo entries of the first load and the saved
\* entry after them
C29_Witness ==
    /\ getConfig(CONFIG).demoMode
    /\ initialized
    /\ appState.currentCalculation = << >>
    /\ saves = 1
    /\ Len(carbonLogs) = 4
    /\ carbonLogs[1].id[1] = "demo"
    /\ carbonLogs[4].id[1] = "log"

====
